---- MODULE Spec2Model ----
(***************************************************************************)
(* Model of the TRXO documentation "soft gateway":                         *)
(*   docs/javascripts/gateway.js          (RedirectController, watcher)    *)
(*   docs/javascripts/email-validation.js (EmailDomainValidator)           *)
(* Strings are TLA+ strings; characters are read with SubSeq(s, i, i).     *)
(***************************************************************************)
EXTENDS Integers, Sequences, FiniteSets, TLC

(***************************************************************************)
(* Bounds of the model                                                     *)
(***************************************************************************)
\* cap on MutationObserver instances and pending redirect timers
MaxWatch == 2
\* cap on the anonymous 'input' listeners and on pending init timers
MaxInit == 2

(***************************************************************************)
(* String helpers (JavaScript String methods)                              *)
(***************************************************************************)
CharAt(s, i) == SubSeq(s, i, i)

\* String.prototype.startsWith
StartsWith(s, pre) == Len(s) >= Len(pre) /\ SubSeq(s, 1, Len(pre)) = pre

\* p.slice(0, -1): drops the last character, whatever it is
SliceDropLast(p) == IF Len(p) = 0 THEN "" ELSE SubSeq(p, 1, Len(p) - 1)

UpperChars == "ABCDEFGHIJKLMNOPQRSTUVWXYZ"
LowerChars == "abcdefghijklmnopqrstuvwxyz"

LowerChar(c) ==
    IF \E i \in 1..26 : CharAt(UpperChars, i) = c
    THEN CharAt(LowerChars, CHOOSE i \in 1..26 : CharAt(UpperChars, i) = c)
    ELSE c

\* String.prototype.toLowerCase
RECURSIVE ToLowerCase(_)
ToLowerCase(s) ==
    IF Len(s) = 0 THEN ""
    ELSE LowerChar(CharAt(s, 1)) \o ToLowerCase(SubSeq(s, 2, Len(s)))

IsWhiteSpace(c) == c \in {" ", "\t", "\n"}

RECURSIVE TrimStart(_)
TrimStart(s) ==
    IF Len(s) > 0 /\ IsWhiteSpace(CharAt(s, 1))
    THEN TrimStart(SubSeq(s, 2, Len(s)))
    ELSE s

RECURSIVE TrimEnd(_)
TrimEnd(s) ==
    IF Len(s) > 0 /\ IsWhiteSpace(CharAt(s, Len(s)))
    THEN TrimEnd(SubSeq(s, 1, Len(s) - 1))
    ELSE s

\* String.prototype.trim
Trim(s) == TrimEnd(TrimStart(s))

\* String.prototype.split(sep) for a one-character separator:
\* the sequence of segments between the separators
RECURSIVE SplitFrom(_, _, _)
SplitFrom(s, sep, cur) ==
    IF Len(s) = 0 THEN <<cur>>
    ELSE IF CharAt(s, 1) = sep
         THEN <<cur>> \o SplitFrom(SubSeq(s, 2, Len(s)), sep, "")
         ELSE SplitFrom(SubSeq(s, 2, Len(s)), sep, cur \o CharAt(s, 1))

Split(s, sep) == SplitFrom(s, sep, "")

(***************************************************************************)
(* gateway.js: configuration and path helpers                              *)
(***************************************************************************)
ACCESS_KEY == "trxo_access_granted"

GATEWAY_PATHS == <<"/trxo/", "/trxo/index.html", "/", "/index.html">>

\* variant: the base segment is not detected
getDashboardPathM(p) == "/home/"
getDashboardPath(p) == IF StartsWith(p, "/trxo") THEN "/trxo/home/" ELSE "/home/"

getGatewayPath(p) == IF StartsWith(p, "/trxo") THEN "/trxo/" ELSE "/"

\* variant: a pattern matches every path it is a prefix of
isGatewayPageM(p) ==
    \E i \in DOMAIN GATEWAY_PATHS : StartsWith(p, GATEWAY_PATHS[i])
isGatewayPage(p) ==
    \E i \in DOMAIN GATEWAY_PATHS :
        p = GATEWAY_PATHS[i] \/ p = SliceDropLast(GATEWAY_PATHS[i])

(***************************************************************************)
(* The page: paths the visitor can be on, elements the template provides   *)
(***************************************************************************)
Paths ==
    { "/", "/index.html", "/trxo/", "/trxo/index.html",
      "/home/", "/trxo/home/", "/anything-else/",
      "/index.htm", "/trxo/index.htm", "/trxo", "/index.html/", "/trxology/" }

\* the paths instant navigation is followed to (links inside the site)
NavPaths == { "/", "/trxo/", "/home/", "/trxo/home/", "/index.htm", "/trxology/" }

\* element ids / selectors the two scripts look up
FormEls == { "sib-form", "button", "EMAIL", "email-error",
             "success-message", "sib-form-container" }
ChromeEls == { "md-header", "md-tabs" }
Elements == FormEls \cup ChromeEls \cup { "gateway-container" }

\* renders the template can be in when a script looks at the document:
\* the ones that differ for gateway.js ...
GatewayTemplates ==
    { Elements,
      Elements \ ChromeEls,
      Elements \ { "md-tabs" },
      Elements \ { "gateway-container", "email-error" },
      ChromeEls,
      {} }

\* ... and the ones that differ for email-validation.js
EmailTemplates ==
    { Elements,
      Elements \ { "email-error" },
      Elements \ { "EMAIL" },
      Elements \ { "button" },
      ChromeEls }

\* a render: the elements present, and whether .gateway-container wraps the form
GatewayRenders ==
    { r \in [els : GatewayTemplates, wraps : BOOLEAN] :
        r.wraps => { "gateway-container", "sib-form-container" } \subseteq r.els }

EmailRenders == [els : EmailTemplates, wraps : { FALSE }]

NoRedirect == "none"

\* values localStorage.getItem(ACCESS_KEY) can return ("null": no item)
StoreValues == { "null", "true", "false" }

\* localStorage cannot be read: getItem (or the localStorage getter) raises
StoreRaises == "raises"

\* localStorage holds no item and cannot be written: getItem returns null,
\* setItem raises (quota exceeded, writes blocked)
StoreReadOnly == "readOnly"

\* variant: the delayed redirect assigns the location
RedirectMethodM(site) == IF site = "timer" THEN "assign" ELSE "replace"

\* the call every redirect of gateway.js is made with: window.location.replace
RedirectMethod(site) == "replace"

\* listener identities: <<function, useCapture>>
validateEmailL == [fn |-> "validateEmail", capture |-> TRUE]
validateEmailClickL == [fn |-> "validateEmailClick", capture |-> TRUE]
transportL == [fn |-> "transport", capture |-> FALSE]

DenialText ==
    "Please use your business email address. Gmail, Yahoo and Hotmail are not allowed."

VARIABLES
    host,               \* "instant": window.document$ exists; "plain": it does not
    path,               \* window.location.pathname
    store,              \* localStorage item under ACCESS_KEY
    dom,                \* elements present in the document
    wraps,              \* .gateway-container is an ancestor of the form container
    headerDisplay,      \* .md-header style.display
    tabsDisplay,        \* .md-tabs style.display
    successState,       \* #success-message: "displayNone" | "noLayoutBox" | "visible"
    containerHTML,      \* .gateway-container innerHTML: "form" | "confirmation"
    observers,          \* MutationObservers observing the current form container
    stale,              \* MutationObservers observing a container of an earlier render
    timers,             \* pending setTimeout(redirect, 1500)
    redirectTo,         \* target of a started window.location.replace, or NoRedirect
    redirectMethod,     \* how the started redirect treats the history: "replace" | "assign"
    backEntry,          \* the history entry below the current one: "visited" (a page
                        \* the visitor left) | "redirected" (a page that redirected away)
    enforceRuns,        \* calls of enforceAccess since the last load or soft navigation
    peer,               \* a second tab of the same profile running gateway.js on the
                        \* same localStorage: "none" | "readNoAccess" | "readAccess" |
                        \* "armed" | "redirecting"
    emailValue,         \* #EMAIL value
    formListeners,      \* 'submit' listeners of #sib-form, in registration order
    btnListeners,       \* 'click' listeners of the submit button
    inputListeners,     \* anonymous 'input' listeners of #EMAIL
    errorLabelDisplay,  \* #email-error style.display
    errorLabelText,     \* #email-error innerText
    emailBorder,        \* #EMAIL style.border
    emailTimers,        \* pending setTimeout(initEmailValidation, 100)
    attachRuns,         \* runs of initEmailValidation that found the current form
    queue,              \* callbacks the current event still has to run, in order
    last                \* the handler that produced the current state, and what it saw

gvars == << path, store, dom, wraps, headerDisplay, tabsDisplay, successState,
            containerHTML, observers, stale, timers, redirectTo, redirectMethod,
            backEntry, enforceRuns, peer >>
evars == << emailValue, formListeners, btnListeners, inputListeners,
            errorLabelDisplay, errorLabelText, emailBorder, emailTimers,
            attachRuns >>
vars == << host, gvars, evars, queue, last >>

\* variant: with document$ the subscription is made and enforceAccess is also
\* called straight away
LoadQueueM(h) ==
    IF h = "instant"
    THEN << "enforceAccess", "enforceAccess", "emailSubscriber", "initEmailValidation" >>
    ELSE << "enforceAccess", "enforceAccess", "initEmailValidation" >>

\* callbacks a full page load runs: the scripts' top level and DOMContentLoaded
LoadQueue(h) ==
    IF h = "instant"
    THEN << "enforceAccess", "emailSubscriber", "initEmailValidation" >>
    ELSE << "enforceAccess", "enforceAccess", "initEmailValidation" >>

\* the scripts started after DOMContentLoaded had fired (readyState is not
\* "loading"): the DOMContentLoaded listener of gateway.js never runs
LateLoadQueue(h) ==
    IF h = "instant"
    THEN << "enforceAccess", "emailSubscriber", "initEmailValidation" >>
    ELSE << "enforceAccess", "initEmailValidation" >>

LoadQueues(h) == { LoadQueue(h), LateLoadQueue(h) }

\* callbacks one document$ emission runs
EmitQueue == << "enforceAccess", "emailSubscriber" >>

Idle == queue = << >> /\ redirectTo = NoRedirect

\* variant: processValidation uses the error label without testing the lookup
DereferencedM(handler, d) ==
    CASE handler = "enforceAccess" ->
           { "sib-form-container", "md-header", "md-tabs" } \cap d
      [] handler = "observerCallback" ->
           { "success-message", "gateway-container" } \cap d
      [] handler = "initEmailValidation" ->
           IF "sib-form" \in d THEN { "sib-form" } \cup ({ "button", "EMAIL" } \cap d)
           ELSE { }
      [] handler = "processValidation" ->
           IF "EMAIL" \in d THEN { "EMAIL", "email-error" } ELSE { }
      [] handler = "input" ->
           { "EMAIL" } \cup ({ "email-error" } \cap d)

\* the elements a handler dereferences (reads or writes a property of) when the
\* document holds the elements d: each lookup result is used only under its
\* own presence test (if (header), if (formContainer), successMsg &&,
\* if (container), if (!form) return, if (submitBtn), if (emailInput),
\* if (!emailInput) return true, if (errorLabel))
Dereferenced(handler, d) ==
    CASE handler = "enforceAccess" ->
           { "sib-form-container", "md-header", "md-tabs" } \cap d
      [] handler = "observerCallback" ->
           { "success-message", "gateway-container" } \cap d
      [] handler = "initEmailValidation" ->
           IF "sib-form" \in d THEN { "sib-form" } \cup ({ "button", "EMAIL" } \cap d)
           ELSE { }
      [] handler = "processValidation" ->
           IF "EMAIL" \in d THEN { "EMAIL" } \cup ({ "email-error" } \cap d) ELSE { }
      [] handler = "input" ->
           { "EMAIL" } \cup ({ "email-error" } \cap d)

\* the handler dereferences a lookup that returned null: a TypeError
Faults(handler, d) == ~ (Dereferenced(handler, d) \subseteq d)

\* what a fresh document and a fresh script context look like
InitialDocument ==
    /\ headerDisplay = ""
    /\ tabsDisplay = ""
    /\ successState = "noLayoutBox"
    /\ containerHTML = "form"
    /\ observers = 0
    /\ stale = 0
    /\ timers = 0
    /\ redirectTo = NoRedirect
    /\ redirectMethod = "none"
    /\ backEntry = "visited"
    /\ enforceRuns = 0
    /\ peer = "none"
    /\ emailValue = ""
    /\ formListeners = << >>
    /\ btnListeners = << >>
    /\ inputListeners = 0
    /\ errorLabelDisplay = ""
    /\ errorLabelText = ""
    /\ emailBorder = ""
    /\ emailTimers = 0
    /\ attachRuns = 0
    /\ queue \in LoadQueues(host)
    /\ last = [op |-> "load"]

\* gateway.js under every path, flag value and render
InitGateway ==
    /\ host \in { "instant", "plain" }
    /\ path \in Paths
    /\ store \in StoreValues \cup { StoreRaises, StoreReadOnly }
    /\ \E r \in GatewayRenders : dom = r.els /\ wraps = r.wraps
    /\ InitialDocument

\* email-validation.js on the gateway page of a visitor without access
InitEmail ==
    /\ host \in { "instant", "plain" }
    /\ path = "/"
    /\ store = "null"
    /\ \E r \in EmailRenders : dom = r.els /\ wraps = r.wraps
    /\ InitialDocument

(***************************************************************************)
(* The host: page loads, soft navigations, template rendering              *)
(***************************************************************************)
\* a new document: every element is new, the scripts' context starts over
FreshDocument(r) ==
    /\ dom' = r.els
    /\ wraps' = r.wraps
    /\ headerDisplay' = ""
    /\ tabsDisplay' = ""
    /\ successState' = "noLayoutBox"
    /\ containerHTML' = "form"
    /\ emailValue' = ""
    /\ formListeners' = << >>
    /\ btnListeners' = << >>
    /\ inputListeners' = 0
    /\ errorLabelDisplay' = ""
    /\ errorLabelText' = ""
    /\ emailBorder' = ""
    /\ attachRuns' = 0

\* the visitor opens or reloads a page: full load
OpenPage(p, r) ==
    /\ Idle
    /\ path' = p
    /\ FreshDocument(r)
    /\ observers' = 0 /\ stale' = 0 /\ timers' = 0 /\ emailTimers' = 0
    /\ redirectTo' = NoRedirect /\ redirectMethod' = "none"
    /\ backEntry' = "visited"
    /\ enforceRuns' = 0
    /\ queue' \in LoadQueues(host)
    /\ last' = [op |-> "load"]
    /\ UNCHANGED << host, store, peer >>

\* a started window.location.replace completes: full load of the target
Redirected(r) ==
    /\ queue = << >>
    /\ redirectTo # NoRedirect
    /\ path' = redirectTo
    /\ FreshDocument(r)
    /\ observers' = 0 /\ stale' = 0 /\ timers' = 0 /\ emailTimers' = 0
    /\ redirectTo' = NoRedirect /\ redirectMethod' = "none"
    /\ backEntry' = IF redirectMethod = "replace" THEN backEntry ELSE "redirected"
    /\ enforceRuns' = 0
    /\ queue' \in LoadQueues(host)
    /\ last' = [op |-> "redirected"]
    /\ UNCHANGED << host, store, peer >>

\* instant navigation: the content is swapped in place, the scripts keep
\* running, document$ emits; the page chrome outside the content stays
Navigate(p, r) ==
    /\ host = "instant"
    /\ Idle
    /\ stale + observers < MaxWatch
    /\ emailTimers < MaxInit
    /\ path' = p
    /\ dom' = r.els
    /\ wraps' = r.wraps
    /\ headerDisplay' = IF "md-header" \in dom \cap r.els THEN headerDisplay ELSE ""
    /\ tabsDisplay' = IF "md-tabs" \in dom \cap r.els THEN tabsDisplay ELSE ""
    /\ successState' = "noLayoutBox"
    /\ containerHTML' = "form"
    /\ emailValue' = ""
    /\ formListeners' = << >>
    /\ btnListeners' = << >>
    /\ inputListeners' = 0
    /\ errorLabelDisplay' = ""
    /\ errorLabelText' = ""
    /\ emailBorder' = ""
    /\ attachRuns' = 0
    /\ stale' = stale + observers
    /\ observers' = 0
    /\ backEntry' = "visited"
    /\ enforceRuns' = 0
    /\ queue' = EmitQueue
    /\ last' = [op |-> "navigate"]
    /\ UNCHANGED << host, store, timers, emailTimers, redirectTo, redirectMethod,
                    peer >>

\* the template finishes rendering after the scripts ran: elements appear
RenderLate(r) ==
    /\ Idle
    /\ containerHTML = "form"
    /\ dom \subseteq r.els /\ dom # r.els
    /\ wraps => r.wraps
    /\ dom' = r.els
    /\ wraps' = r.wraps
    /\ last' = [op |-> "render"]
    /\ UNCHANGED << host, path, store, headerDisplay, tabsDisplay, successState,
                    containerHTML, observers, stale, timers, redirectTo,
                    redirectMethod, backEntry, enforceRuns, peer, evars, queue >>

(***************************************************************************)
(* gateway.js: enforceAccess and the form observer                         *)
(***************************************************************************)
\* variant: any non-empty stored value counts as access
HasAccessTruthy(v) == v \notin { "null", "" }

\* localStorage.getItem(ACCESS_KEY) === 'true'
HasAccess(v) == v = "true"

\* variant: the gateway is armed only while no watcher exists yet
EnforceDecisionOnce(hasAccess, onGateway) ==
    IF hasAccess
    THEN IF onGateway THEN "toContent" ELSE "none"
    ELSE IF ~onGateway THEN "toGateway"
         ELSE IF observers > 0 THEN "none" ELSE "arm"

\* variant: the gateway is armed whatever the access flag says
EnforceDecisionM(hasAccess, onGateway) ==
    IF onGateway
    THEN IF hasAccess THEN "toContent" ELSE "arm"
    ELSE IF hasAccess THEN "arm" ELSE "toGateway"

\* the branch enforceAccess takes
EnforceDecision(hasAccess, onGateway) ==
    IF hasAccess
    THEN IF onGateway THEN "toContent" ELSE "none"
    ELSE IF ~onGateway THEN "toGateway" ELSE "arm"

\* initFormObserver: the new observer observes only an existing form container
ObserverArmed(d) == "sib-form-container" \in d

\* variant: the element is looked up but not hidden
HideIfPresentM(el, d, display) == display

\* if (header) header.style.display = 'none'
HideIfPresent(el, d, display) == IF el \in d THEN "none" ELSE display

\* variant: the no-access branch records 'false' under the key
StoreAfterEnforceM(v, hasAccess) == IF hasAccess THEN v ELSE "false"

\* enforceAccess only reads the item: whatever it read, the item stays as it is
StoreAfterEnforce(v, hasAccess) == v

\* enforceAccess; when the read of the flag raises, the exception leaves the
\* function at its first statement
EnforceAccess ==
    /\ queue # << >> /\ Head(queue) = "enforceAccess"
    /\ enforceRuns' = enforceRuns + 1
    /\ IF store = StoreRaises
       THEN /\ last' = [op |-> "enforceAccessRaised", path |-> path]
            /\ UNCHANGED << store, redirectTo, redirectMethod, observers,
                            headerDisplay, tabsDisplay >>
       ELSE
       LET hasAccess == HasAccess(store)
           onGateway == isGatewayPage(path)
           decision == EnforceDecision(hasAccess, onGateway)
       IN /\ store' = StoreAfterEnforce(store, hasAccess)
          /\ redirectTo' = CASE decision = "toContent" -> getDashboardPath(path)
                             [] decision = "toGateway" -> getGatewayPath(path)
                             [] OTHER -> redirectTo
          /\ redirectMethod' = IF decision \in { "toContent", "toGateway" }
                               THEN RedirectMethod(decision) ELSE redirectMethod
          /\ observers' = IF decision = "arm" /\ ObserverArmed(dom)
                          THEN observers + 1 ELSE observers
          /\ headerDisplay' = IF decision = "arm"
                              THEN HideIfPresent("md-header", dom, headerDisplay)
                              ELSE headerDisplay
          /\ tabsDisplay' = IF decision = "arm"
                            THEN HideIfPresent("md-tabs", dom, tabsDisplay)
                            ELSE tabsDisplay
          /\ last' = [op |-> "enforceAccess", path |-> path, hasAccess |-> hasAccess,
                      onGateway |-> onGateway, decision |-> decision,
                      after |-> last.op,
                      fault |-> decision = "arm" /\ Faults("enforceAccess", dom)]
    /\ queue' = Tail(queue)
    /\ UNCHANGED << host, path, dom, wraps, successState, containerHTML,
                    stale, timers, backEntry, peer, evars >>

\* a mutation inside the observed form container (the form library shows or
\* hides its panels); every observer of the container is notified
DomMutation(s) ==
    /\ Idle
    /\ "sib-form-container" \in dom
    /\ timers + observers <= MaxWatch
    /\ successState' = IF "success-message" \in dom THEN s ELSE successState
    /\ queue' = [i \in 1..observers |-> "observerCallback"]
    /\ last' = [op |-> "mutation"]
    /\ UNCHANGED << host, path, store, dom, wraps, headerDisplay, tabsDisplay,
                    containerHTML, observers, stale, timers, redirectTo,
                    redirectMethod, backEntry, enforceRuns, peer, evars >>

\* a mutation inside a form container of an earlier render, detached from the
\* document but still referenced by the form library (a request in flight when
\* the visitor navigated): the observers of that container, never disconnected,
\* are notified
StaleMutation ==
    /\ Idle
    /\ stale > 0
    /\ timers + stale <= MaxWatch
    /\ queue' = [i \in 1..stale |-> "staleCallback"]
    /\ last' = [op |-> "staleMutation"]
    /\ UNCHANGED << host, path, store, dom, wraps, headerDisplay, tabsDisplay,
                    successState, containerHTML, observers, stale, timers,
                    redirectTo, redirectMethod, backEntry, enforceRuns, peer, evars >>

\* variant: only the presence of the element is tested
SuccessShownPresent(d, st) == "success-message" \in d

\* variant: the offsetParent test is left out
SuccessShownM(d, st) == "success-message" \in d /\ st # "displayNone"

\* successMsg && style.display !== 'none' && offsetParent !== null
SuccessShown(d, st) == "success-message" \in d /\ st = "visible"

\* the MutationObserver callback, the same for an observer of the current
\* container and for one of an earlier render: it looks #success-message up in
\* the current document; when setItem raises, the exception leaves the callback
\* before the confirmation is written and the timer set
ObserverCallback ==
    /\ queue # << >> /\ Head(queue) \in { "observerCallback", "staleCallback" }
    /\ IF SuccessShown(dom, successState) /\ store # StoreReadOnly
       THEN /\ store' = "true"
            /\ timers' = timers + 1
            /\ IF "gateway-container" \in dom
               THEN /\ containerHTML' = "confirmation"
                    /\ IF wraps
                       THEN /\ dom' = dom \ FormEls
                            /\ wraps' = FALSE
                            /\ stale' = stale + observers
                            /\ observers' = 0
                            /\ emailValue' = ""
                            /\ formListeners' = << >>
                            /\ btnListeners' = << >>
                            /\ inputListeners' = 0
                            /\ errorLabelDisplay' = ""
                            /\ errorLabelText' = ""
                            /\ emailBorder' = ""
                            /\ attachRuns' = 0
                            /\ UNCHANGED emailTimers
                       ELSE UNCHANGED << dom, wraps, stale, observers, evars >>
               ELSE UNCHANGED << containerHTML, dom, wraps, stale, observers, evars >>
       ELSE UNCHANGED << store, timers, containerHTML, dom, wraps, stale,
                         observers, evars >>
    /\ last' = [op |-> "observerCallback",
                shown |-> SuccessShown(dom, successState),
                granted |-> SuccessShown(dom, successState) /\ store # StoreReadOnly,
                raised |-> SuccessShown(dom, successState) /\ store = StoreReadOnly,
                fromStale |-> Head(queue) = "staleCallback", before |-> store,
                fault |-> Faults("observerCallback", dom)]
    /\ queue' = Tail(queue)
    /\ UNCHANGED << host, path, headerDisplay, tabsDisplay, successState, redirectTo,
                    redirectMethod, backEntry, enforceRuns, peer >>

\* the 1500 ms timer: window.location.replace(getDashboardPath())
RedirectTimer ==
    /\ Idle
    /\ timers > 0
    /\ timers' = timers - 1
    /\ redirectTo' = getDashboardPath(path)
    /\ redirectMethod' = RedirectMethod("timer")
    /\ last' = [op |-> "redirectTimer", path |-> path]
    /\ UNCHANGED << host, path, store, dom, wraps, headerDisplay, tabsDisplay,
                    successState, containerHTML, observers, stale, backEntry,
                    enforceRuns, peer, evars, queue >>

(***************************************************************************)
(* gateway.js in a second tab of the same profile: the same localStorage,  *)
(* its own document. Its steps interleave with this tab's at any point; a  *)
(* read and what follows it are separate steps.                            *)
(***************************************************************************)
PeerSteps == << host, path, dom, wraps, headerDisplay, tabsDisplay, successState,
                containerHTML, observers, stale, timers, redirectTo, redirectMethod,
                backEntry, enforceRuns, evars, queue, last >>

\* the peer loads a page and enforceAccess reads the flag
PeerRead ==
    /\ peer \in { "none", "armed", "redirecting" }
    /\ store # StoreRaises
    /\ peer' = IF HasAccess(store) THEN "readAccess" ELSE "readNoAccess"
    /\ UNCHANGED << store, PeerSteps >>

\* enforceAccess in the peer acts on what it read: with access it ends on a
\* content page, without access it arms the watcher on the gateway page
PeerDecide ==
    /\ peer \in { "readAccess", "readNoAccess" }
    /\ store' = StoreAfterEnforce(store, peer = "readAccess")
    /\ peer' = IF peer = "readAccess" THEN "none" ELSE "armed"
    /\ UNCHANGED PeerSteps

\* the peer's observer callback finds its success indicator visible
PeerCallback ==
    /\ peer = "armed"
    /\ store # StoreReadOnly
    /\ store' = "true"
    /\ peer' = "redirecting"
    /\ UNCHANGED PeerSteps

(***************************************************************************)
(* email-validation.js                                                     *)
(***************************************************************************)
\* values the visitor can have typed into #EMAIL
EmailValues ==
    { "user@gmail.com", " User@GMAIL.com ", "user@yahoo.com", "\tuser@Hotmail.Com\n",
      "a@b@gmail.com", "user@example.com", "user@gmail.com.au", "user@xgmail.com",
      "gmail.com@example.com", "user@ gmail.com", "user@", "@",
      "not-an-email", "gmail.com", "", "  " }

blockedDomains == { "gmail.com", "yahoo.com", "hotmail.com" }

\* variant: the value is trimmed but not lower-cased
NormalizeM(value) == Trim(value)

\* emailInput.value.trim().toLowerCase()
Normalize(value) == ToLowerCase(Trim(value))

\* removeEventListener(type, l, capture): drops the listener with that identity
RemoveListener(ls, l) == SelectSeq(ls, LAMBDA x : x # l)

\* addEventListener(type, l, capture): a listener already registered is not added again
AddListener(ls, l) ==
    IF \E i \in DOMAIN ls : ls[i] = l THEN ls ELSE Append(ls, l)

\* variant: every attach registers a listener of its own
ReattachM(ls, l) == Append(ls, l)

\* the remove-then-add of initEmailValidation
Reattach(ls, l) == AddListener(RemoveListener(ls, l), l)

\* variant: off by one
LacksDomainM(parts) == Len(parts) < 1

\* parts.length < 2: no '@' in the value
LacksDomain(parts) == Len(parts) < 2

\* variant: a domain ending in a blocked domain is blocked
IsBlockedM(domain) ==
    \E b \in blockedDomains :
        Len(domain) >= Len(b) /\ SubSeq(domain, Len(domain) - Len(b) + 1, Len(domain)) = b

\* blockedDomains.includes(domain)
IsBlocked(domain) == domain \in blockedDomains

\* variant: without the input the submission is refused
NoInputResultM(ui) == [ok |-> FALSE, ui |-> ui]

\* if (!emailInput) return true
NoInputResult(ui) == [ok |-> TRUE, ui |-> ui]

\* processValidation: TRUE lets the submission through; ui is the label and border
processValidation(d, value, ui) ==
    IF "EMAIL" \notin d THEN NoInputResult(ui)
    ELSE LET parts == Split(Normalize(value), "@")
             hasLabel == "email-error" \in d
         IN IF LacksDomain(parts) THEN [ok |-> TRUE, ui |-> ui]
            ELSE IF IsBlocked(parts[Len(parts)])
                 THEN [ok |-> FALSE,
                       ui |-> [display |-> IF hasLabel THEN "block" ELSE ui.display,
                               text |-> IF hasLabel THEN DenialText ELSE ui.text,
                               border |-> "invalid"]]
                 ELSE [ok |-> TRUE,
                       ui |-> [display |-> IF hasLabel THEN "none" ELSE ui.display,
                               text |-> ui.text,
                               border |-> "valid"]]

\* variant: the listeners of the target run in registration order, whatever
\* their capture flag
DispatchOrderM(ls) == ls

\* listeners of the event's target run capture listeners first, then the others,
\* each group in registration order
DispatchOrder(ls) ==
    SelectSeq(ls, LAMBDA x : x.capture) \o SelectSeq(ls, LAMBDA x : ~x.capture)

\* one event through its listeners: validateEmail / validateEmailClick call
\* preventDefault and stopImmediatePropagation when processValidation fails
RECURSIVE RunListeners(_, _, _, _)
RunListeners(ls, d, value, acc) ==
    IF ls = << >> \/ acc.stopped THEN acc
    ELSE LET l == Head(ls)
         IN IF l.fn = "transport"
            THEN RunListeners(Tail(ls), d, value,
                     [acc EXCEPT !.transport = TRUE,
                                 !.order = Append(acc.order, l.fn)])
            ELSE LET r == processValidation(d, value, acc.ui)
                 IN RunListeners(Tail(ls), d, value,
                        [acc EXCEPT !.ui = r.ui,
                                    !.runs = acc.runs + 1,
                                    !.order = Append(acc.order, l.fn),
                                    !.cancelled = acc.cancelled \/ ~r.ok,
                                    !.stopped = ~r.ok])

CurrentUi == [display |-> errorLabelDisplay, text |-> errorLabelText,
              border |-> emailBorder]

StartAcc == [ui |-> CurrentUi, runs |-> 0, cancelled |-> FALSE, stopped |-> FALSE,
             transport |-> FALSE, order |-> << >>]

\* a 'submit' event dispatched at the form
SubmitEvent(acc) == RunListeners(DispatchOrder(formListeners), dom, emailValue, acc)

\* a click on the submit button; its default action, if not prevented, submits the form
ClickEvent(acc) ==
    LET c == RunListeners(DispatchOrder(btnListeners), dom, emailValue, acc)
    IN IF c.cancelled THEN c ELSE SubmitEvent([c EXCEPT !.stopped = FALSE])

Submitted(via, res) ==
    /\ errorLabelDisplay' = res.ui.display
    /\ errorLabelText' = res.ui.text
    /\ emailBorder' = res.ui.border
    /\ last' = [op |-> "submit", via |-> via, value |-> emailValue,
                hasInput |-> "EMAIL" \in dom, hasLabel |-> "email-error" \in dom,
                shownBefore |-> errorLabelDisplay = "block", runs |-> res.runs, cancelled |-> res.cancelled,
                transport |-> res.transport, order |-> res.order,
                attachRuns |-> attachRuns,
                fault |-> res.runs >= 1 /\ Faults("processValidation", dom)]
    /\ UNCHANGED << host, gvars, emailValue, formListeners, btnListeners,
                    inputListeners, emailTimers, attachRuns, queue >>

\* the form is submitted without a click (requestSubmit, implicit submission)
SubmitForm ==
    /\ Idle
    /\ "sib-form" \in dom
    /\ Submitted("submit", SubmitEvent(StartAcc))

\* the visitor clicks the submit button
ClickSubmit ==
    /\ Idle
    /\ { "sib-form", "button" } \subseteq dom
    /\ Submitted("click", ClickEvent(StartAcc))

\* initEmailValidation
InitEmailValidationBody ==
    /\ IF "sib-form" \in dom
       THEN /\ formListeners' = Reattach(formListeners, validateEmailL)
            /\ btnListeners' = IF "button" \in dom
                               THEN Reattach(btnListeners, validateEmailClickL)
                               ELSE btnListeners
            /\ inputListeners' = IF "EMAIL" \in dom
                                 THEN inputListeners + 1 ELSE inputListeners
            /\ attachRuns' = attachRuns + 1
       ELSE UNCHANGED << formListeners, btnListeners, inputListeners, attachRuns >>
    /\ last' = [op |-> "initEmailValidation", found |-> "sib-form" \in dom,
                fault |-> Faults("initEmailValidation", dom)]
    /\ UNCHANGED << host, gvars, emailValue, errorLabelDisplay, errorLabelText,
                    emailBorder >>

\* initEmailValidation run at load (DOMContentLoaded or straight away)
InitEmailValidationLoad ==
    /\ queue # << >> /\ Head(queue) = "initEmailValidation"
    /\ InitEmailValidationBody
    /\ queue' = Tail(queue)
    /\ UNCHANGED emailTimers

\* initEmailValidation run by the 100 ms timer
InitEmailValidationTimer ==
    /\ Idle
    /\ emailTimers > 0
    /\ InitEmailValidationBody
    /\ emailTimers' = emailTimers - 1
    /\ UNCHANGED queue

\* the document$ subscriber: setTimeout(initEmailValidation, 100)
EmailSubscriber ==
    /\ queue # << >> /\ Head(queue) = "emailSubscriber"
    /\ emailTimers' = emailTimers + 1
    /\ queue' = Tail(queue)
    /\ last' = [op |-> "emailSubscriber"]
    /\ UNCHANGED << host, gvars, emailValue, formListeners, btnListeners,
                    inputListeners, errorLabelDisplay, errorLabelText, emailBorder,
                    attachRuns >>

\* the visitor edits the field: an 'input' event with the new value
TypeEmail(v) ==
    /\ Idle
    /\ "EMAIL" \in dom
    /\ emailValue' = v
    /\ errorLabelDisplay' = IF inputListeners > 0 /\ "email-error" \in dom
                            THEN "none" ELSE errorLabelDisplay
    /\ emailBorder' = IF inputListeners > 0 THEN "valid" ELSE emailBorder
    /\ last' = [op |-> "input", listeners |-> inputListeners,
                fault |-> inputListeners > 0 /\ Faults("input", dom)]
    /\ UNCHANGED << host, gvars, formListeners, btnListeners, inputListeners,
                    errorLabelText, emailTimers, attachRuns, queue >>

\* the form library registers its own submit handler on the form
TransportAttach ==
    /\ Idle
    /\ "sib-form" \in dom
    /\ ~ \E i \in DOMAIN formListeners : formListeners[i] = transportL
    /\ formListeners' = AddListener(formListeners, transportL)
    /\ last' = [op |-> "transportAttach"]
    /\ UNCHANGED << host, gvars, emailValue, btnListeners, inputListeners,
                    errorLabelDisplay, errorLabelText, emailBorder, emailTimers,
                    attachRuns, queue >>

(***************************************************************************)
(* The program                                                             *)
(***************************************************************************)
\* gateway.js with its host; the validator is attached but not exercised
NextGateway ==
    \/ \E p \in Paths, r \in GatewayRenders : OpenPage(p, r)
    \/ \E r \in GatewayRenders : Redirected(r)
    \/ \E p \in NavPaths, r \in GatewayRenders : Navigate(p, r)
    \/ \E r \in GatewayRenders : RenderLate(r)
    \/ EnforceAccess
    \/ \E s \in { "displayNone", "noLayoutBox", "visible" } : DomMutation(s)
    \/ StaleMutation
    \/ ObserverCallback
    \/ RedirectTimer
    \/ InitEmailValidationLoad
    \/ InitEmailValidationTimer
    \/ EmailSubscriber

SpecGateway == InitGateway /\ [][NextGateway]_vars

\* email-validation.js with the visitor and the form library acting on the form
NextEmail ==
    \/ \E r \in EmailRenders : OpenPage("/", r)
    \/ \E r \in EmailRenders : Navigate("/", r)
    \/ \E r \in EmailRenders : RenderLate(r)
    \/ EnforceAccess
    \/ InitEmailValidationLoad
    \/ InitEmailValidationTimer
    \/ EmailSubscriber
    \/ \E v \in EmailValues : TypeEmail(v)
    \/ SubmitForm
    \/ ClickSubmit
    \/ TransportAttach

SpecEmail == InitEmail /\ [][NextEmail]_vars

\* two tabs on the shared flag
TabPaths == { "/", "/home/" }
TabRenders == { r \in GatewayRenders : r.els = Elements }

InitTabs ==
    /\ host \in { "instant", "plain" }
    /\ path \in TabPaths
    /\ store \in StoreValues
    /\ \E r \in TabRenders : dom = r.els /\ wraps = r.wraps
    /\ InitialDocument

NextTabs ==
    \/ \E p \in TabPaths, r \in TabRenders : OpenPage(p, r)
    \/ \E r \in TabRenders : Redirected(r)
    \/ EnforceAccess
    \/ \E s \in { "displayNone", "noLayoutBox", "visible" } : DomMutation(s)
    \/ ObserverCallback
    \/ RedirectTimer
    \/ InitEmailValidationLoad
    \/ InitEmailValidationTimer
    \/ EmailSubscriber
    \/ PeerRead
    \/ PeerDecide
    \/ PeerCallback

SpecTabs == InitTabs /\ [][NextTabs]_vars

\* both scripts loaded on the gateway page with any subset of the elements
\* they look up present in the document
InitElements ==
    /\ host = "plain"
    /\ path = "/"
    /\ store = "null"
    /\ dom \in SUBSET Elements
    /\ wraps \in BOOLEAN
    /\ wraps => { "gateway-container", "sib-form-container" } \subseteq dom
    /\ InitialDocument

NextElements ==
    \/ EnforceAccess
    \/ InitEmailValidationLoad
    \/ DomMutation("visible")
    \/ ObserverCallback
    \/ \E v \in { "user@gmail.com", "user@example.com" } : TypeEmail(v)
    \/ SubmitForm
    \/ ClickSubmit
    \/ TransportAttach

SpecElements == InitElements /\ [][NextElements]_vars

(***************************************************************************)
(* Properties                                                              *)
(***************************************************************************)
\* the path lies under the '/trxo' base segment
UnderBase(p) == p = "/trxo" \/ StartsWith(p, "/trxo/")

EnforceRan == last.op = "enforceAccess"

\* C1: when enforceAccess runs without access on a Content path, the started
\* redirect goes to '/trxo/' under the '/trxo' base segment and to '/' otherwise.
C1_RedirectToGateway ==
    (EnforceRan /\ ~last.hasAccess /\ ~last.onGateway)
        => redirectTo = IF UnderBase(last.path) THEN "/trxo/" ELSE "/"

\* C2: when enforceAccess runs with access on a Gateway path, it starts a
\* redirect to '/trxo/home/' under the '/trxo' base and to '/home/' otherwise,
\* and no watcher is created.
C2_RedirectToContent ==
    [][ (last'.op = "enforceAccess" /\ last'.hasAccess /\ last'.onGateway)
          => /\ redirectTo' = IF UnderBase(last'.path) THEN "/trxo/home/" ELSE "/home/"
             /\ observers' = observers
             /\ stale' = stale ]_vars

C2_Witness ==
    /\ EnforceRan /\ last.hasAccess /\ last.onGateway
    /\ last.path = "/trxo/index.html"
    /\ redirectTo = "/trxo/home/"
    /\ observers = 0

\* C3: when enforceAccess runs with access on a Content path, nothing changes:
\* no redirect, no element modified, no watcher, no timer, no write of the flag.
C3_ContentBrowsingUntouched ==
    [][ (last'.op = "enforceAccess" /\ last'.hasAccess /\ ~last'.onGateway)
          => UNCHANGED << path, store, dom, wraps, headerDisplay, tabsDisplay,
                          successState, containerHTML, observers, stale, timers,
                          redirectTo, evars >> ]_vars

C3_Witness ==
    /\ EnforceRan /\ last.hasAccess /\ ~last.onGateway
    /\ ChromeEls \subseteq dom
    /\ "sib-form-container" \in dom
    /\ headerDisplay = "" /\ tabsDisplay = ""
    /\ observers = 0 /\ timers = 0
    /\ redirectTo = NoRedirect

C5_ClassifiesListedPaths ==
    EnforceRan =>
        /\ last.path \in { "/", "/index.html", "/trxo/", "/trxo/index.html" }
              => last.onGateway
        /\ last.path \in { "/home/", "/trxo/home/", "/anything-else/" }
              => ~last.onGateway

C5_Witness ==
    /\ EnforceRan /\ last.path = "/trxo/index.html" /\ last.onGateway

\* the paths that differ from pattern p by at most one trailing slash
SlashVariants(p) ==
    { p, p \o "/" } \cup
    (IF Len(p) > 0 /\ CharAt(p, Len(p)) = "/" THEN { SubSeq(p, 1, Len(p) - 1) } ELSE {})

\* C6: a path is classified Gateway if and only if it equals a configured
\* pattern or differs from one only by a single trailing slash.
C6_GatewayIffPatternUpToSlash ==
    EnforceRan =>
        (last.onGateway <=>
            \E i \in DOMAIN GATEWAY_PATHS : last.path \in SlashVariants(GATEWAY_PATHS[i]))

\* the typed values by what the validator has to do with them
DeniedValues ==
    { "user@gmail.com", " User@GMAIL.com ", "user@yahoo.com", "\tuser@Hotmail.Com\n",
      "a@b@gmail.com" }
NoAtValues == { "not-an-email", "gmail.com", "", "  " }
AcceptedValues == (EmailValues \ DeniedValues) \ NoAtValues

\* a submission the validator intercepted with the email field present
Intercepted == last.op = "submit" /\ last.runs >= 1 /\ last.hasInput

\* C7: an intercepted submission of a value whose last '@' segment is, after
\* trimming and lower-casing, gmail.com, yahoo.com or hotmail.com is cancelled
\* and kept from the other handlers, the label shows the denial text and the
\* input is marked invalid.
C7_DeniedDomainCancelled ==
    (Intercepted /\ last.value \in DeniedValues)
        => /\ last.cancelled
           /\ ~last.transport
           /\ emailBorder = "invalid"
           /\ last.hasLabel => (errorLabelDisplay = "block" /\ errorLabelText = DenialText)

C7_Witness ==
    /\ Intercepted /\ last.value = " User@GMAIL.com "
    /\ last.cancelled /\ last.hasLabel
    /\ errorLabelDisplay = "block" /\ errorLabelText = DenialText
    /\ emailBorder = "invalid"
    /\ \E i \in DOMAIN formListeners : formListeners[i] = transportL

\* C8: an intercepted submission of a value with an '@' whose domain is not
\* denylisted is not cancelled, the label is hidden (also if it was shown) and
\* the input is marked valid.
C8_OtherDomainAccepted ==
    (Intercepted /\ last.value \in AcceptedValues)
        => /\ ~last.cancelled
           /\ emailBorder = "valid"
           /\ last.hasLabel => errorLabelDisplay = "none"

C8_Witness ==
    /\ Intercepted /\ last.value = "user@xgmail.com"
    /\ last.shownBefore /\ last.hasLabel
    /\ ~last.cancelled /\ last.transport
    /\ errorLabelDisplay = "none" /\ emailBorder = "valid"

\* C9: a submission of a value without '@' proceeds unmodified: it is not
\* cancelled and the validator changes neither the label nor the input's state.
C9_NoAtUnmodified ==
    [][ (last'.op = "submit" /\ last'.value \in NoAtValues)
          => /\ ~last'.cancelled
             /\ UNCHANGED << errorLabelDisplay, errorLabelText, emailBorder >> ]_vars

C9_Witness ==
    /\ Intercepted /\ last.value = "gmail.com"
    /\ ~last.cancelled /\ last.transport
    /\ errorLabelDisplay = "block" /\ emailBorder = "invalid"

\* C10 as claimed: after two or more attaches on the same form, one submission,
\* by click too, runs the validation procedure exactly once.
C10_ValidatedExactlyOnce ==
    (last.op = "submit" /\ last.attachRuns >= 2) => last.runs = 1

\* C10 as amended: after two or more attaches a submit event runs the
\* procedure exactly once; a click runs it at most twice, once at the click and
\* once more at the submit event only when the click was not cancelled.
C10_OncePerInterceptionPoint ==
    (last.op = "submit" /\ last.attachRuns >= 2)
        => /\ last.via = "submit" => last.runs = 1
           /\ last.via = "click" => (last.runs \in { 1, 2 } /\ (last.cancelled => last.runs = 1))

C10_Witness ==
    /\ last.op = "submit" /\ last.via = "click" /\ last.attachRuns >= 2
    /\ last.runs = 2 /\ ~last.cancelled
    /\ Len(formListeners) = 2 /\ Len(btnListeners) = 1

\* l is among the listeners ls
Registered(ls, l) == \E i \in DOMAIN ls : ls[i] = l

\* C12: whenever the form is submitted while both the validator and the transport
\* handler are registered on it, validateEmail runs before the transport handler,
\* whichever was registered first, and for a denylisted domain the transport
\* handler does not run at all.
C12_ValidatorBeforeTransport ==
    ( /\ last.op = "submit"
      /\ Registered(formListeners, validateEmailL)
      /\ Registered(formListeners, transportL) ) =>
        /\ \A i \in DOMAIN last.order :
               last.order[i] = "transport" =>
                   \E j \in 1..(i - 1) : last.order[j] = "validateEmail"
        /\ (last.hasInput /\ last.value \in DeniedValues) => ~last.transport

\* the transport handler was registered first, the validator re-attached behind
\* it, and a submission ran the validator and then the transport handler
C12_Witness ==
    /\ last.op = "submit"
    /\ formListeners = << transportL, validateEmailL >>
    /\ last.attachRuns >= 2
    /\ last.order = << "validateEmail", "transport" >>

\* C13: in every state where no callback is pending and the gateway form is in
\* the document (so the visitor can submit it), validateEmail is registered on
\* the form.
C13_ValidatorAttachedWhenSubmittable ==
    (Idle /\ "sib-form" \in dom) => Registered(formListeners, validateEmailL)

\* the observer callback ran, found the success indicator visible and could
\* write the flag
GrantStep ==
    /\ last'.op = "observerCallback"
    /\ "success-message" \in dom /\ successState = "visible"
    /\ store # StoreReadOnly

\* C11: when the observer callback finds the success indicator visible, the flag
\* becomes "true", the gateway container shows the confirmation, one redirect
\* timer is added and no redirect starts yet; when the timer fires, the redirect
\* goes to the content entry path of the deployment the visitor is on.
C11_GrantSequence ==
    [][ /\ GrantStep =>
              /\ store' = "true"
              /\ "gateway-container" \in dom => containerHTML' = "confirmation"
              /\ timers' = timers + 1
              /\ redirectTo' = redirectTo
        /\ last'.op = "redirectTimer" =>
              /\ timers' = timers - 1
              /\ redirectTo' = IF UnderBase(path) THEN "/trxo/home/" ELSE "/home/"
      ]_vars

\* C14: when the read of the flag raises, enforceAccess still completes and takes
\* the branch of a visitor without access: redirect to the gateway from a content
\* page, arming on the gateway page.
C14_ReadFailureMeansNoAccess ==
    (store = StoreRaises /\ last.op \in { "enforceAccess", "enforceAccessRaised" }) =>
        /\ last.op = "enforceAccess"
        /\ ~last.hasAccess
        /\ last.decision = IF isGatewayPage(last.path) THEN "arm" ELSE "toGateway"

\* C15: the flag changes only in an observer callback that found the success
\* indicator visible, and only to "true"; once "true" it stays "true".
C15_FlagWrittenOnlyOnSuccess ==
    [][ /\ store' # store => (GrantStep /\ store' = "true")
        /\ store = "true" => store' = "true" ]_vars

\* a callback turned a flag that was "false" into "true"
C15_Witness ==
    /\ last.op = "observerCallback" /\ last.granted
    /\ last.before = "false" /\ store = "true"

\* C16: at most one MutationObserver observes the form container of the current
\* render.
C16_SingleWatcher == observers <= 1

\* C17: at most one redirect timer is pending, and none is pending when a soft
\* navigation has just put a new render in place.
C17_SingleRedirectTimer ==
    /\ timers <= 1
    /\ last.op = "navigate" => timers = 0

\* C18: once the callbacks of a load or soft navigation have run, enforceAccess
\* has been called exactly once for it.
C18_EnforceOncePerNavigation ==
    queue = << >> => enforceRuns = 1

\* C18 (amended): enforceAccess is called once per document$ emission when the
\* host has document$; without it, it is called once or twice per full load
\* (straight away, and again at DOMContentLoaded unless that has already fired).
C18_EnforceOnceOrTwice ==
    /\ enforceRuns <= 2
    /\ queue = << >> =>
          IF host = "instant" THEN enforceRuns = 1 ELSE enforceRuns \in { 1, 2 }

\* without document$, a full load has run enforceAccess twice
C18_Witness ==
    /\ host = "plain" /\ queue = << >> /\ enforceRuns = 2
    /\ last.op = "initEmailValidation"

\* C19: every started redirect replaces the current history entry, and the
\* entry Back returns to is never a page that redirected away.
C19_RedirectsReplaceHistory ==
    /\ redirectTo # NoRedirect => redirectMethod = "replace"
    /\ backEntry # "redirected"

\* the gateway redirected a visitor with access to the content entry page
C19_Witness ==
    /\ last.op = "redirected"
    /\ path \in { "/home/", "/trxo/home/" }
    /\ store = "true"
    /\ backEntry = "visited"

\* C20: an observer armed for an earlier render never runs the grant sequence.
C20_StaleWatcherNeverGrants ==
    (last.op = "observerCallback" /\ last.fromStale) => ~last.granted

\* C21: an observer callback that finds #success-message absent, styled
\* display none, or without a layout box changes nothing: flag, document,
\* watchers, timers and redirect stay as they were.
C21_NoGrantUnlessShown ==
    [][ ( /\ last'.op = "observerCallback"
          /\ ~ ("success-message" \in dom /\ successState = "visible") ) =>
            UNCHANGED << store, dom, wraps, containerHTML, observers, stale, timers,
                         redirectTo, successState >> ]_vars

\* a callback ran while the indicator was hidden through an ancestor
C21_Witness ==
    /\ last.op = "observerCallback" /\ ~last.granted
    /\ "success-message" \in dom /\ successState = "noLayoutBox"
    /\ store = "null" /\ timers = 0

\* the one decision for each flag reading (has access or not) and each path
\* classification (gateway or not)
DecisionTable ==
    [a \in BOOLEAN |-> [g \in BOOLEAN |->
        IF a THEN (IF g THEN "toContent" ELSE "none")
             ELSE (IF g THEN "arm" ELSE "toGateway")]]

\* C22: every run of enforceAccess that reads the flag takes the decision the
\* table gives for the flag and the classification of the path, whatever the
\* document, the watchers, the timers and the history are; it starts a redirect
\* exactly when that decision is a redirect.
C22_DecisionFromFlagAndPath ==
    [][ last'.op = "enforceAccess" =>
          LET d == DecisionTable[store = "true"][isGatewayPage(path)]
          IN /\ last'.decision = d
             /\ (redirectTo' # NoRedirect) <=> (d \in { "toContent", "toGateway" })
      ]_vars

\* a second run on the same render took the arming decision again although a
\* watcher was already armed
C22_Witness ==
    /\ last.op = "enforceAccess" /\ last.decision = "arm"
    /\ observers = 2 /\ enforceRuns = 2

\* C23: no handler dereferences a lookup that returned null, whichever of the
\* elements are missing, and a denylisted domain is cancelled and kept from the
\* transport handler also when the error label is missing.
C23_MissingElementsNeverFault ==
    /\ last.op \in { "enforceAccess", "observerCallback", "initEmailValidation",
                     "submit", "input" } => ~last.fault
    /\ (Intercepted /\ ~last.hasLabel /\ last.value \in DeniedValues) =>
          (last.cancelled /\ ~last.transport /\ emailBorder = "invalid")

\* a denylisted submission was cancelled in a document without the error
\* label, the submit button, the page chrome and the gateway container
C23_Witness ==
    /\ dom = { "sib-form", "EMAIL", "sib-form-container", "success-message" }
    /\ Intercepted /\ last.value = "user@gmail.com"
    /\ last.cancelled /\ ~last.fault
    /\ Registered(formListeners, transportL)

\* C24: when the callback finds the success indicator visible and the write of
\* the flag fails, no exception leaves the callback and the callback runs to
\* its end: the confirmation is written and the redirect timer set.
C24_WriteFailureIsSilent ==
    (last.op = "observerCallback" /\ last.shown /\ store = StoreReadOnly) =>
        /\ ~last.raised
        /\ timers >= 1
        /\ "gateway-container" \in dom => containerHTML = "confirmation"

\* C25: a submission intercepted while #EMAIL is not in the document is not
\* cancelled, reaches the transport handler if one is registered, and leaves
\* the error label and the border as they were.
C25_NoInputAllowsSubmission ==
    [][ (last'.op = "submit" /\ last'.runs >= 1 /\ "EMAIL" \notin dom) =>
          /\ ~last'.cancelled
          /\ Registered(formListeners, transportL) => last'.transport
          /\ UNCHANGED << errorLabelDisplay, errorLabelText, emailBorder >> ]_vars

\* the validator ran on a form without #EMAIL but with the label, and the
\* submission went on to the transport handler
C25_Witness ==
    /\ last.op = "submit" /\ last.runs >= 1
    /\ ~last.hasInput /\ last.hasLabel
    /\ ~last.cancelled /\ last.transport
    /\ errorLabelDisplay = ""

\* C26: after every keystroke in #EMAIL the error label is not shown, and the
\* keystroke leaves the submit and click listeners as they were; a later
\* intercepted submission of a denylisted domain is cancelled and shows the
\* label again.
C26_KeystrokeHidesLabel ==
    /\ last.op = "input" => errorLabelDisplay # "block"
    /\ (Intercepted /\ last.value \in DeniedValues) =>
          /\ last.cancelled
          /\ last.hasLabel => errorLabelDisplay = "block"

\* C27: with a second tab reading and writing the same item in any
\* interleaving with this tab, every change of the flag sets it to "true", and
\* once it is "true" it is "true" in every later state.
C27_TabsNeverUngrant ==
    [][ /\ store' # store => store' = "true"
        /\ store = "true" => store' = "true" ]_vars

\* this tab has just granted access while the peer had read 'no access' and
\* has not acted on it yet
C27_Witness ==
    /\ last.op = "observerCallback" /\ last.granted /\ last.before # "true"
    /\ store = "true"
    /\ peer = "readNoAccess"

\* the path equals a configured gateway pattern up to one trailing slash
GatewayByPattern(p) ==
    \E i \in DOMAIN GATEWAY_PATHS : p \in SlashVariants(GATEWAY_PATHS[i])

\* C28: the run of enforceAccess on the page a redirect landed on starts no
\* further redirect, and a run that starts no redirect leaves a visitor with
\* access on a Content path and a visitor without access on a Gateway path.
C28_SettlesWithoutLoop ==
    last.op = "enforceAccess" =>
        /\ last.after = "redirected" => last.decision \notin { "toContent", "toGateway" }
        /\ last.decision \notin { "toContent", "toGateway" } =>
              (last.hasAccess <=> ~GatewayByPattern(last.path))

\* the loop-freedom part alone
C28_NoSecondRedirect ==
    (last.op = "enforceAccess" /\ last.after = "redirected") =>
        last.decision \notin { "toContent", "toGateway" }

\* C29: on a gateway page with readable and writable storage, once a mutation has made the success indicator
\* visible inside the form container and the callbacks it notified have run,
\* access is granted and the redirect to the content entry path is pending or
\* started, whether the container was rendered before or after enforceAccess.
C29_SuccessLeadsToGrant ==
    ( /\ isGatewayPage(path)
      /\ store \in StoreValues
      /\ "sib-form-container" \in dom
      /\ SuccessShown(dom, successState)
      /\ last.op \in { "mutation", "observerCallback" }
      /\ queue = << >> ) =>
        /\ store = "true"
        /\ timers >= 1 \/ redirectTo \in { "/home/", "/trxo/home/" }

\* a validation run that has just ended: in a denial, or accepting the value
DenialRun(l) == l.op = "submit" /\ l.runs >= 1 /\ l.cancelled
AcceptedRun(l) == l.op = "submit" /\ l.runs >= 1 /\ ~l.cancelled

\* C30: the error label is displayed only if the most recent validation run
\* ended in a denial and neither a keystroke in the email field nor an accepted
\* validation has happened since: a step leaves the label displayed only if it
\* is a denial, or the label was displayed and the step is neither a keystroke
\* nor an accepted validation; a displayed label carries the denial text.
C30_LabelOnlyAfterDenial ==
    [][ errorLabelDisplay' = "block" =>
          /\ \/ DenialRun(last')
             \/ /\ errorLabelDisplay = "block"
                /\ last'.op # "input"
                /\ ~AcceptedRun(last')
          /\ errorLabelText' = DenialText ]_vars

(***************************************************************************)
(* The flag under values the component did not write                       *)
(***************************************************************************)
\* what getItem(ACCESS_KEY) can return when the item was written by hand or by
\* another script of the origin ("null": no item)
FlagValues == { "null", "true", "false", "TRUE", "True", "1", " true", "true ", "" }

InitFlag ==
    /\ host \in { "instant", "plain" }
    /\ path \in TabPaths
    /\ store \in FlagValues
    /\ \E r \in TabRenders : dom = r.els /\ wraps = r.wraps
    /\ InitialDocument

NextFlag ==
    \/ \E p \in TabPaths, r \in TabRenders : OpenPage(p, r)
    \/ \E r \in TabRenders : Redirected(r)
    \/ EnforceAccess
    \/ \E s \in { "displayNone", "noLayoutBox", "visible" } : DomMutation(s)
    \/ ObserverCallback
    \/ RedirectTimer
    \/ InitEmailValidationLoad
    \/ InitEmailValidationTimer
    \/ EmailSubscriber

SpecFlag == InitFlag /\ [][NextFlag]_vars

\* C31: enforceAccess treats the visitor as having access exactly when the
\* item read under 'trxo_access_granted' is the string 'true': then it never
\* sends the visitor to the gateway nor arms it; with no item or any other value
\* ('TRUE', '1', 'false', ' true', ...) it takes the no-access branch.
C31_AccessIffExactlyTrue ==
    [][ last'.op = "enforceAccess" =>
          /\ ACCESS_KEY = "trxo_access_granted"
          /\ last'.hasAccess <=> (store = "true")
          /\ store = "true" => last'.decision \in { "toContent", "none" }
          /\ store # "true" => last'.decision \in { "toGateway", "arm" } ]_vars

C31_Witness ==
    /\ last.op = "enforceAccess"
    /\ store = "TRUE"
    /\ ~last.hasAccess
    /\ last.decision = "toGateway"
    /\ redirectTo # NoRedirect

====
